---- MODULE Spec2Model ----
(***************************************************************************)
(* Webhook ingestion and message relay of the WhatsApp / Botpress bridge.  *)
(*                                                                         *)
(* The persisted tables (webhook_events, conversations, messages) are the  *)
(* committed state.  Every HTTP request runs in its own SQLAlchemy session:*)
(* what it adds or changes lives in the request's transaction until        *)
(* db.session.commit() and is discarded by db.session.rollback().  Reads   *)
(* see the committed rows plus the request's own flushed rows; attribute   *)
(* values of a loaded object are the values at load time (identity map).   *)
(* The schema declares no unique constraint on conversations or messages   *)
(* and the code takes no lock, so requests interleave between statements.  *)
(* Calls to the Botpress and WhatsApp APIs are external effects: a         *)
(* rollback does not undo them.                                            *)
(***************************************************************************)
EXTENDS Integers, Sequences, FiniteSets, TLC

\* ---------------------------------------------------------------- bounds
MaxSlots == 2
MaxRequests == 3
MaxBatch == 1
MaxBatchEvents == 2
MaxBatchRequests == 2
MaxDays == 2
MaxPrefixLen == 2
MaxZeroRun == 11

\* ------------------------------------------------------- fixed input sets
None == 0
Null == "null"
Slots == 1..MaxSlots
Phones == {"p1"}
InboundIds == {101}
PhoneNumberIds == {"pn1"}
BotIds == {"bp1"}
StatusNames == {"sent", "delivered", "read", "failed"}
Texts == {"hello"}
AllIds == 1..(3 * MaxRequests * MaxBatchEvents + 3)

\* The chatbots table (read-only for the relay): a deployed chatbot, an
\* inactive one, and an active one with auto_response_enabled switched off.
Chatbots ==
  { [id |-> "cb1", status |-> "active", whatsapp_phone_number_id |-> "pn1",
     botpress_bot_id |-> "bp1", auto_response_enabled |-> TRUE],
    [id |-> "cb2", status |-> "inactive", whatsapp_phone_number_id |-> "pn2",
     botpress_bot_id |-> "bp2", auto_response_enabled |-> TRUE],
    [id |-> "cb3", status |-> "active", whatsapp_phone_number_id |-> "pn3",
     botpress_bot_id |-> "bp3", auto_response_enabled |-> FALSE] }

\* f overridden by g on the domain of g
Override(f, g) ==
  [x \in (DOMAIN f) \cup (DOMAIN g) |-> IF x \in DOMAIN g THEN g[x] ELSE f[x]]

Empty == [x \in {} |-> None]

VARIABLES
  events,      \* committed webhook_events rows, by id
  convs,       \* committed conversations rows, by id
  msgs,        \* committed messages rows, by id
  req,         \* the request running in every slot
  calls,       \* the calls made to the Botpress and WhatsApp APIs so far
  started,     \* number of requests received so far; also the clock
  resp,        \* the last HTTP response sent
  probe        \* arguments and result of the last service call made on its own

vars == <<events, convs, msgs, req, calls, started, resp, probe>>

\* An HTTP response: the status code, the processed_events count of the
\* WhatsApp handler's body, and the text of a plain-text body.
Response(status, processed_events, body) ==
  [status |-> status, processed_events |-> processed_events, body |-> body]

NoResponse == Response(None, 0, "")
NoProbe == [fn |-> "none"]

\* ------------------------------------------------------ WebhookEvent model
CreateEventKwargs == {"event_type", "source", "payload", "chatbot_id"}
HandlerKwargs == {"source", "event_type", "event_data", "phone_number_id", "processed"}
BotpressHandlerKwargs == {"source", "event_type", "event_data", "bot_id", "processed"}

\* WebhookEvent.__init__(self, event_type, source, payload, **kwargs): a call
\* that does not pass the three named parameters raises TypeError.
WebhookEventInit(kw, source, event_type, payload) ==
  IF {"event_type", "source", "payload"} \subseteq kw
  THEN [source |-> source, event_type |-> event_type, payload |-> payload,
        processed |-> FALSE, processed_at |-> None,
        error_message |-> Null, retry_count |-> 0, created_at |-> started]
  ELSE [raised |-> "TypeError"]

mark_processed(ev, now) ==
  [ev EXCEPT !.processed = TRUE, !.processed_at = now]

\* mark_failed written so that a failure also clears the processed flag
mark_failed_Mutant(ev, error_message) ==
  [ev EXCEPT !.error_message = error_message, !.retry_count = @ + 1,
             !.processed = FALSE]

mark_failed(ev, error_message) ==
  [ev EXCEPT !.error_message = error_message, !.retry_count = @ + 1]

can_retry(ev, max_retries) == ev.retry_count < max_retries /\ ~ev.processed

\* ------------------------------------------------------------ the requests
IdleReq ==
  [pc |-> "idle", kind |-> "none", queue |-> <<>>, batch |-> 0,
   signature |-> <<>>, ev |-> None, weid |-> None,
   conv |-> None, txEvents |-> Empty, txConvs |-> Empty, txMsgs |-> Empty,
   dirty |-> Empty]

Init ==
  /\ events = Empty
  /\ convs = Empty
  /\ msgs = Empty
  /\ req = [r \in Slots |-> IdleReq]
  /\ calls = {}
  /\ started = 0
  /\ resp = NoResponse
  /\ probe = NoProbe

\* The HTTP status codes an external API answers with, and the ones for
\* which response.raise_for_status() raises: _make_request turns each of them
\* into the same Exception.
HttpStatuses == {200, 400, 500}
\* raise_for_status that lets client errors through
raise_for_status_Mutant(status_code) == status_code >= 500

raise_for_status(status_code) == status_code >= 400
FailureCodes == {code \in HttpStatuses : raise_for_status(code)}

\* One call of an external API, made while the webhook event ev was
\* processed, and the status code of its answer.
Call(ev, api, to, mid, status_code) ==
  [ev |-> ev, api |-> api, to |-> to, mid |-> mid,
   ok |-> ~raise_for_status(status_code), status_code |-> status_code]

\* The messages the WhatsApp API accepted from send_text_message.
WaSent == {c \in calls : c.api = "send_text_message" /\ c.ok}

\* The calls of botpress_service.send_message for the inbound message mid.
BotpressSends(mid) == {c \in calls : c.api = "send_message" /\ c.mid = mid}

\* Row ids are uuid4 values: the k-th id that no row, no session and no
\* record of an external call holds.
UsedIds ==
  (DOMAIN events) \cup (DOMAIN convs) \cup (DOMAIN msgs) \cup {c.ev : c \in calls}
  \cup UNION {(DOMAIN req[r].txEvents) \cup (DOMAIN req[r].txConvs)
               \cup (DOMAIN req[r].txMsgs) : r \in Slots}

RECURSIVE KthOf(_, _)
KthOf(S, k) ==
  LET least == CHOOSE x \in S : \A y \in S : x <= y
  IN IF k = 1 THEN least ELSE KthOf(S \ {least}, k - 1)

FreshId(k) == KthOf(AllIds \ UsedIds, k)

\* A JSON object is a record of its keys; a JSON value of another type (a
\* string, a number, null) is the record [scalar |-> value] and has no .get.
IsObject(x) == "scalar" \notin DOMAIN x

\* dict.get(key, default)
Get(d, key, default) == IF key \in DOMAIN d THEN d[key] ELSE default

\* whatsapp_service.process_webhook_event: the sub-events of a payload, the
\* messages of a change first, then its statuses.  A key an entry lacks reads
\* as None; an entry that is not an object raises AttributeError at its first
\* .get, and the except clause re-raises.
MessageEvent(pnid, m) ==
  [type |-> "message_received", message_id |-> Get(m, "id", None),
   from |-> Get(m, "from", Null),
   message_type |-> "text", content |-> [text |-> Get(m, "text", "")],
   phone_number_id |-> pnid]

StatusEvent(pnid, s) ==
  [type |-> "message_status", message_id |-> Get(s, "id", None),
   status |-> Get(s, "status", Null),
   phone_number_id |-> pnid]

process_webhook_event(webhook_data) ==
  IF \/ \E i \in 1..Len(webhook_data.messages) : ~IsObject(webhook_data.messages[i])
     \/ \E i \in 1..Len(webhook_data.statuses) : ~IsObject(webhook_data.statuses[i])
  THEN [raised |-> TRUE, events |-> <<>>]
  ELSE [raised |-> FALSE,
        events |->
          [i \in 1..Len(webhook_data.messages) |->
              MessageEvent(webhook_data.pnid, webhook_data.messages[i])]
          \o
          [i \in 1..Len(webhook_data.statuses) |->
              StatusEvent(webhook_data.pnid, webhook_data.statuses[i])]]

\* The payloads a provider can deliver: at most MaxBatch sub-events, status
\* callbacks for the ids of inbound messages and of messages already stored.
SeqsUpTo(S, n) == UNION {[1..k -> S] : k \in 0..n}

StatusIds == InboundIds \cup {c.mid : c \in WaSent}

WhatsappPayloads ==
  {p \in [pnid : PhoneNumberIds,
          messages : SeqsUpTo([id : InboundIds, from : Phones, text : Texts], MaxBatch),
          statuses : SeqsUpTo([id : StatusIds, status : StatusNames], MaxBatch)] :
      Len(p.messages) + Len(p.statuses) <= MaxBatch}

\* ---------------------------------------------------- Conversation, Message
NewConversation(chatbot_id, customer_phone, now) ==
  [chatbot_id |-> chatbot_id, customer_phone |-> customer_phone,
   status |-> "open", ended_at |-> None,
   last_message_at |-> now, message_count |-> 0]

\* (timestamp is the value the attribute has before the INSERT fills in the
\* column default; started_at and created_at of these rows are left out.)
NewMessage(conversation_id, direction, content, wamid, weid) ==
  [conversation_id |-> conversation_id, direction |-> direction,
   type |-> "text", content |-> content,
   whatsapp_message_id |-> wamid, timestamp |-> None,
   delivered_at |-> None, read_at |-> None, failed_at |-> None,
   error_message |-> Null, webhook_event_id |-> weid]

\* Conversation.add_message: the message is added to the session, the counter
\* of the loaded object is incremented and last_message_at takes the
\* timestamp of the message, which is still unset before the flush.
add_message(conv, message) ==
  [conv EXCEPT !.message_count = @ + 1, !.last_message_at = message.timestamp]

close(conv, now) == [conv EXCEPT !.status = "closed", !.ended_at = now]
reopen(conv) == [conv EXCEPT !.status = "open", !.ended_at = None]
archive(conv) == [conv EXCEPT !.status = "archived"]

\* mark_delivered that also stamps the message's timestamp
mark_delivered_Mutant(m, now) ==
  [m EXCEPT !.delivered_at = now, !.timestamp = now]

mark_delivered(m, now) == [m EXCEPT !.delivered_at = now]
mark_read(m, now) == [m EXCEPT !.read_at = now]
message_mark_failed(m, now, err) ==
  [m EXCEPT !.failed_at = now, !.error_message = err]

\* ----------------------------------------------------------- the session
\* Rows a query of request rq can see: committed rows and rq's own rows.
VisibleConvs(rq) == Override(rq.txConvs, convs)
VisibleMsgs(rq) == Override(rq.txMsgs, msgs)

\* The object the session hands out for a row: the one in its identity map
\* when the row was loaded or created before, else the committed row.
ConvObject(rq, c) == IF c \in DOMAIN rq.txConvs THEN rq.txConvs[c] ELSE convs[c]
MsgObject(rq, m) == IF m \in DOMAIN rq.txMsgs THEN rq.txMsgs[m] ELSE msgs[m]

\* the conversation query without its status filter
OpenConversations_Mutant(rq, chatbot_id, customer_phone) ==
  {c \in DOMAIN VisibleConvs(rq) :
      /\ VisibleConvs(rq)[c].chatbot_id = chatbot_id
      /\ VisibleConvs(rq)[c].customer_phone = customer_phone}

\* Conversation.query.filter_by(chatbot_id, customer_phone, status='open')
OpenConversations(rq, chatbot_id, customer_phone) ==
  {c \in DOMAIN VisibleConvs(rq) :
      /\ VisibleConvs(rq)[c].chatbot_id = chatbot_id
      /\ VisibleConvs(rq)[c].customer_phone = customer_phone
      /\ VisibleConvs(rq)[c].status = "open"}

\* Message.query.filter_by(whatsapp_message_id=message_id)
MessagesByWhatsappId(rq, message_id) ==
  {m \in DOMAIN VisibleMsgs(rq) :
      VisibleMsgs(rq)[m].whatsapp_message_id = message_id}

\* WebhookEvent.query.get(webhook_event_id) followed by the processed mark;
\* get(None) finds no row.
MarkEventProcessed(rq, weid, now) ==
  IF weid # None /\ weid \in DOMAIN rq.txEvents
  THEN [rq EXCEPT !.txEvents[weid] = mark_processed(@, now)]
  ELSE rq

\* db.session.commit(): new rows are inserted, loaded rows get the changed
\* columns of their objects written.
CommittedConvs(rq) ==
  [c \in (DOMAIN convs) \cup (DOMAIN rq.txConvs) |->
     IF c \notin DOMAIN rq.txConvs THEN convs[c]
     ELSE IF c \notin DOMAIN convs THEN rq.txConvs[c]
     ELSE [convs[c] EXCEPT !.message_count = rq.txConvs[c].message_count,
                           !.last_message_at = rq.txConvs[c].last_message_at]]

CommittedMsgs(rq) ==
  [m \in (DOMAIN msgs) \cup (DOMAIN rq.txMsgs) |->
     IF m \notin DOMAIN rq.txMsgs THEN msgs[m]
     ELSE IF m \notin DOMAIN msgs THEN rq.txMsgs[m]
     ELSE [f \in DOMAIN msgs[m] |->
             IF f \in rq.dirty[m] THEN rq.txMsgs[m][f] ELSE msgs[m][f]]]

CommittedEvents(rq) == Override(events, rq.txEvents)

\* except Exception: db.session.rollback() and the 500 response; the session
\* of the request is discarded.
Rollback(rq) == IdleReq

\* A request is served by the first free worker.
FreeSlot(r) ==
  /\ req[r].pc = "idle"
  /\ \A q \in Slots : q < r => req[q].pc # "idle"

\* ------------------------------------------------- handle_whatsapp_webhook
\* POST /whatsapp with a payload of the set payloads: the payload is parsed
\* into its sub-events; an exception of the parse is answered with 500.
ReceiveWhatsapp(r, payloads) ==
  /\ FreeSlot(r)
  /\ started < MaxRequests
  /\ \E webhook_data \in payloads :
       LET parsed == process_webhook_event(webhook_data) IN
       IF parsed.raised
       THEN /\ resp' = Response(500, 0, "")
            /\ UNCHANGED req
       ELSE /\ req' = [req EXCEPT ![r] =
                 [IdleReq EXCEPT !.kind = "whatsapp",
                                 !.queue = parsed.events,
                                 !.batch = Len(parsed.events),
                                 !.pc = IF parsed.events = <<>>
                                        THEN "commit" ELSE "event"]]
            /\ UNCHANGED resp
  /\ started' = started + 1
  /\ UNCHANGED <<events, convs, msgs, calls, probe>>

HandleWhatsappWebhook(r) == ReceiveWhatsapp(r, WhatsappPayloads)

\* The position of the handler after the body of its loop.
AfterEvent(rq) ==
  [rq EXCEPT !.queue = Tail(@),
             !.pc = IF Len(rq.queue) > 1 THEN "event" ELSE "commit"]

\* The outcomes of the two Botpress calls of one forward.
ForwardOutcomes == {"ok", "create_conversation_fails", "send_message_fails"}

\* await_process_whatsapp_message(event, webhook_event_id) for the event
\* stored under evid in the session of rq.
ProcessWhatsappMessage(r, rq, event, evid, weid, out, code) ==
  LET matches == {cb \in Chatbots :
                    /\ cb.whatsapp_phone_number_id = event.phone_number_id
                    /\ cb.status = "active"}
  IN
  IF matches = {}
  THEN /\ req' = [req EXCEPT ![r] = AfterEvent(rq)]
       /\ UNCHANGED calls
  ELSE
    \E chatbot \in matches :
    LET open == OpenConversations(rq, chatbot.id, event.from)
        cid == FreshId(2)
        mid == FreshId(3)
    IN
    \E found \in (IF open = {} THEN {None} ELSE open) :
    LET c == IF found = None THEN cid ELSE found
        conversation == IF found = None
                        THEN NewConversation(chatbot.id, event.from, started)
                        ELSE ConvObject(rq, found)
        message == NewMessage(c, "inbound", event.content.text, event.message_id, weid)
        forwards == chatbot.botpress_bot_id # Null /\ chatbot.auto_response_enabled
        rq1 == [rq EXCEPT !.txConvs = Override(@, c :> add_message(conversation, message)),
                          !.txMsgs = Override(@, mid :> message),
                          !.conv = c]
    IN
    /\ req' = [req EXCEPT ![r] = AfterEvent(MarkEventProcessed(rq1, weid, started))]
    /\ calls' = calls
         \cup (IF forwards
               THEN {Call(evid, "create_conversation", event.from, event.message_id,
                          IF out = "create_conversation_fails" THEN code ELSE 200)}
               ELSE {})
         \cup (IF forwards /\ out # "create_conversation_fails"
               THEN {Call(evid, "send_message", event.from, event.message_id,
                          IF out = "ok" THEN 200 ELSE code)}
               ELSE {})
         \cup {Call(evid, "mark_message_as_read", event.from, event.message_id, 200)}

\* await_process_whatsapp_status(event, webhook_event_id)
ProcessWhatsappStatus(r, rq, event, evid, weid) ==
  LET matches == MessagesByWhatsappId(rq, event.message_id) IN
  /\ \E m \in (IF matches = {} THEN {None} ELSE matches) :
       LET message == MsgObject(rq, m)
           updated ==
             CASE event.status = "sent" -> mark_delivered(message, started)
               [] event.status = "delivered" -> mark_delivered(message, started)
               [] event.status = "read" -> mark_read(message, started)
               [] event.status = "failed" ->
                    message_mark_failed(message, started, "Unknown error")
               [] OTHER -> message
           changed ==
             CASE event.status \in {"sent", "delivered"} -> {"delivered_at"}
               [] event.status = "read" -> {"read_at"}
               [] event.status = "failed" -> {"failed_at", "error_message"}
               [] OTHER -> {}
           before == IF m \in DOMAIN rq.dirty THEN rq.dirty[m] ELSE {}
           rq1 == IF m = None THEN rq
                  ELSE [rq EXCEPT !.txMsgs = Override(@, m :> updated),
                                  !.dirty = Override(@, m :> (before \cup changed))]
       IN req' = [req EXCEPT ![r] = AfterEvent(MarkEventProcessed(rq1, weid, started))]
  /\ UNCHANGED calls

\* One pass through the loop of handle_whatsapp_webhook: the event is stored
\* with the keyword arguments kw, then processed according to its type.
WhatsappEvent(r, kw) ==
  /\ req[r].pc = "event"
  /\ req[r].kind = "whatsapp"
  /\ LET event == Head(req[r].queue)
         webhook_event == WebhookEventInit(kw, "whatsapp", event.type, event)
         evid == FreshId(1)
         \* the object is added to the session but not flushed: its id is unset
         weid == None
     IN
     IF "raised" \in DOMAIN webhook_event
     THEN /\ req' = [req EXCEPT ![r] = Rollback(req[r])]
          /\ resp' = Response(500, 0, "")
          /\ UNCHANGED calls
     ELSE /\ UNCHANGED resp
          /\ LET rq == [req[r] EXCEPT !.txEvents = Override(@, evid :> webhook_event),
                                      !.ev = evid, !.weid = weid]
             IN IF event.type = "message_received"
                THEN \E out \in ForwardOutcomes, code \in FailureCodes :
                        ProcessWhatsappMessage(r, rq, event, evid, weid, out, code)
                ELSE ProcessWhatsappStatus(r, rq, event, evid, weid)
  /\ UNCHANGED <<events, convs, msgs, started, probe>>

\* ------------------------------------------------- handle_botpress_webhook
\* The bodies Botpress posts: {type, botId, conversationId, userId, payload}.
BotpressBodies ==
  [type : {"message_received", "conversation_started"},
   botId : BotIds, userId : Phones, text : {"hi"}]

\* botpress_service.process_webhook_event at clock reading now
botpress_process_webhook_event(event_data, now) ==
  [event_type |-> event_data.type, bot_id |-> event_data.botId,
   timestamp |-> now, processed |-> TRUE, data |-> event_data]

\* current_app.config.get('BOTPRESS_WEBHOOK_SECRET'): a deployment with the
\* shared secret configured.
BOTPRESS_WEBHOOK_SECRET == "whsec"

\* hmac.new(secret, payload, sha256).hexdigest(): the digest is determined by
\* the key and the message and differs when either differs.
HmacSha256(secret, payload) == [key |-> secret, msg |-> payload]

\* The X-Botpress-Signature header as a string of two parts; <<>> is the
\* absent (or empty) header.
Sign(secret, payload) == <<"sha256=", HmacSha256(secret, payload)>>

\* The headers a sender can attach to a body: none, the signature under the
\* shared secret, a signature under another key.
SignatureHeaders(payload) ==
  {<<>>, Sign(BOTPRESS_WEBHOOK_SECRET, payload), Sign("forged", payload)}

\* botpress_service.validate_webhook_signature
validate_webhook_signature(payload, signature, secret) ==
  signature = <<"sha256=", HmacSha256(secret, payload)>>

\* The signature check of handle_botpress_webhook rejects the request.
InvalidSignature(webhook_data, signature) ==
  /\ signature # <<>>
  /\ BOTPRESS_WEBHOOK_SECRET # Null
  /\ ~validate_webhook_signature(webhook_data, signature, BOTPRESS_WEBHOOK_SECRET)

\* POST /botpress: the signature is checked when the header is present, then
\* the body is normalised into one event.
ReceiveBotpress(r, bodies) ==
  /\ FreeSlot(r)
  /\ started < MaxRequests
  /\ \E webhook_data \in bodies :
     \E signature \in SignatureHeaders(webhook_data) :
       IF InvalidSignature(webhook_data, signature)
       THEN /\ resp' = Response(403, 0, "")
            /\ UNCHANGED req
       ELSE /\ req' = [req EXCEPT ![r] =
                 [IdleReq EXCEPT !.kind = "botpress", !.pc = "event",
                    !.signature = signature,
                    !.queue = <<botpress_process_webhook_event(webhook_data,
                                                               started + 1)>>]]
            /\ UNCHANGED resp
  /\ started' = started + 1
  /\ UNCHANGED <<events, convs, msgs, calls, probe>>

HandleBotpressWebhook(r) == ReceiveBotpress(r, BotpressBodies)

\* await_process_botpress_message(event, webhook_event_id)
ProcessBotpressMessage(r, rq, event, evid, weid, status_code) ==
  LET matches == {cb \in Chatbots :
                    /\ cb.botpress_bot_id = event.bot_id
                    /\ cb.status = "active"}
      message_text == event.data.text
      user_id == event.data.userId
      sent == ~raise_for_status(status_code)
  IN
  IF matches = {} \/ message_text = "" \/ user_id = ""
  THEN /\ req' = [req EXCEPT ![r] = AfterEvent(rq)]
       /\ UNCHANGED calls
  ELSE
    \E chatbot \in matches :
    LET open == OpenConversations(rq, chatbot.id, user_id) IN
    IF open = {}
    THEN /\ req' = [req EXCEPT ![r] = AfterEvent(rq)]
         /\ UNCHANGED calls
    ELSE
      \E c \in open :
      LET wamid == Cardinality(WaSent) + 1
          mid == FreshId(2)
          message == NewMessage(c, "outbound", message_text, wamid, weid)
          rq1 == IF sent
                 THEN [rq EXCEPT !.txConvs = Override(@, c :>
                                     add_message(ConvObject(rq, c), message)),
                                 !.txMsgs = Override(@, mid :> message),
                                 !.conv = c]
                 ELSE rq
          sends == chatbot.whatsapp_phone_number_id # Null
      IN
      /\ req' = [req EXCEPT ![r] =
                   AfterEvent(MarkEventProcessed(
                                IF sends THEN rq1 ELSE rq, weid, started))]
      /\ calls' = IF sends
                  THEN calls \cup {Call(evid, "send_text_message", user_id,
                                        IF sent THEN wamid ELSE None,
                                        status_code)}
                  ELSE calls

\* The body of handle_botpress_webhook after normalisation: the event is
\* stored with the keyword arguments kw and flushed, then processed.
BotpressEvent(r, kw) ==
  /\ req[r].pc = "event"
  /\ req[r].kind = "botpress"
  /\ LET event == Head(req[r].queue)
         webhook_event == WebhookEventInit(kw, "botpress", event.event_type, event)
         evid == FreshId(1)
         \* db.session.flush() has assigned the id
         weid == evid
     IN
     IF "raised" \in DOMAIN webhook_event
     THEN /\ req' = [req EXCEPT ![r] = Rollback(req[r])]
          /\ resp' = Response(500, 0, "")
          /\ UNCHANGED calls
     ELSE /\ UNCHANGED resp
          /\ LET rq == [req[r] EXCEPT !.txEvents = Override(@, evid :> webhook_event),
                                      !.ev = evid, !.weid = weid]
             IN IF event.event_type = "message_received"
                THEN \E status_code \in HttpStatuses :
                        ProcessBotpressMessage(r, rq, event, evid, weid, status_code)
                ELSE \* conversation_started, conversation_ended
                     /\ req' = [req EXCEPT ![r] =
                                  AfterEvent(MarkEventProcessed(rq, weid, started))]
                     /\ UNCHANGED calls
  /\ UNCHANGED <<events, convs, msgs, started, probe>>

\* ------------------------------------------------------- conversations API
\* POST /<conversation_id>/messages: the conversation is loaded and an
\* outbound message added to it; the commit follows.
SendMessage(r) ==
  /\ FreeSlot(r)
  /\ started < MaxRequests
  /\ \E c \in DOMAIN convs :
       LET message == NewMessage(c, "outbound", "hi", None, None) IN
       req' = [req EXCEPT ![r] =
                 [IdleReq EXCEPT !.kind = "send", !.pc = "commit", !.conv = c,
                    !.txConvs = c :> add_message(convs[c], message),
                    !.txMsgs = FreshId(1) :> message]]
  /\ started' = started + 1
  /\ UNCHANGED <<events, convs, msgs, calls, resp, probe>>

\* POST /<conversation_id>/close
CloseConversation ==
  /\ started < MaxRequests
  /\ \E c \in DOMAIN convs :
       convs' = [convs EXCEPT ![c] = close(@, started + 1)]
  /\ started' = started + 1
  /\ resp' = Response(200, 0, "")
  /\ UNCHANGED <<events, msgs, req, calls, probe>>

\* POST /<conversation_id>/reopen
ReopenConversation ==
  /\ started < MaxRequests
  /\ \E c \in DOMAIN convs :
       convs' = [convs EXCEPT ![c] = reopen(@)]
  /\ started' = started + 1
  /\ resp' = Response(200, 0, "")
  /\ UNCHANGED <<events, msgs, req, calls, probe>>

\* Conversation.archive() followed by a commit
ArchiveConversation ==
  /\ started < MaxRequests
  /\ \E c \in DOMAIN convs :
       convs' = [convs EXCEPT ![c] = archive(@)]
  /\ started' = started + 1
  /\ UNCHANGED <<events, msgs, req, calls, resp, probe>>

\* ------------------------------------------------------ end of a request
\* The response after the commit: 200 with the number of sub-events for the
\* WhatsApp handler, 200 for the Botpress handler, 201 for a manual send.
SuccessResponse(rq) ==
  CASE rq.kind = "whatsapp" -> Response(200, rq.batch, "")
    [] rq.kind = "send" -> Response(201, 0, "")
    [] OTHER -> Response(200, 0, "")

\* db.session.commit() and the success response of the handler.
Commit(r) ==
  /\ req[r].pc = "commit"
  /\ events' = CommittedEvents(req[r])
  /\ convs' = CommittedConvs(req[r])
  /\ msgs' = CommittedMsgs(req[r])
  /\ req' = [req EXCEPT ![r] = IdleReq]
  /\ resp' = SuccessResponse(req[r])
  /\ UNCHANGED <<calls, started, probe>>

\* A database error (lost connection, lock timeout) raised by a statement of
\* the request: the processing function re-raises it, the handler rolls back.
DatabaseError(r) ==
  /\ req[r].pc \in {"event", "commit"}
  /\ req' = [req EXCEPT ![r] = Rollback(req[r])]
  /\ resp' = Response(500, 0, "")
  /\ UNCHANGED <<events, convs, msgs, calls, started, probe>>

Next ==
  \/ CloseConversation
  \/ ReopenConversation
  \/ ArchiveConversation
  \/ \E r \in Slots :
    \/ HandleWhatsappWebhook(r)
    \/ WhatsappEvent(r, HandlerKwargs)
    \/ WhatsappEvent(r, CreateEventKwargs)
    \/ HandleBotpressWebhook(r)
    \/ BotpressEvent(r, BotpressHandlerKwargs)
    \/ BotpressEvent(r, CreateEventKwargs)
    \/ SendMessage(r)
    \/ Commit(r)
    \/ DatabaseError(r)

Spec == Init /\ [][Next]_vars

\* ------------------------------------------- deliveries for other numbers
\* Deliveries for the phone numbers of the chatbots that do not forward
\* (inactive, auto-response off) and for a number no chatbot is bound to.
UnservedPhoneNumberIds == {"pn0", "pn2", "pn3"}

UnservedPayloads ==
  [pnid : UnservedPhoneNumberIds,
   messages : {<<m>> : m \in [id : InboundIds, from : Phones, text : Texts]},
   statuses : {<<>>}]

HandleUnservedWebhook(r) == ReceiveWhatsapp(r, UnservedPayloads)

RoutingNext ==
  \E r \in Slots :
    \/ HandleWhatsappWebhook(r)
    \/ HandleUnservedWebhook(r)
    \/ WhatsappEvent(r, HandlerKwargs)
    \/ WhatsappEvent(r, CreateEventKwargs)
    \/ Commit(r)
    \/ DatabaseError(r)

RoutingSpec == Init /\ [][RoutingNext]_vars

\* -------------------------------------------------------------- batches
\* Deliveries that carry several sub-events, up to MaxBatchEvents of them.
BatchPayloads ==
  {p \in [pnid : PhoneNumberIds,
          messages : SeqsUpTo([id : InboundIds, from : Phones, text : Texts],
                              MaxBatchEvents),
          statuses : SeqsUpTo([id : StatusIds, status : StatusNames], MaxBatchEvents)] :
      /\ Len(p.messages) + Len(p.statuses) >= 2
      /\ Len(p.messages) + Len(p.statuses) <= MaxBatchEvents}

HandleWhatsappBatch(r) ==
  /\ started < MaxBatchRequests
  /\ ReceiveWhatsapp(r, BatchPayloads)

BatchNext ==
  \E r \in Slots :
    \/ HandleWhatsappBatch(r)
    \/ WhatsappEvent(r, CreateEventKwargs)
    \/ Commit(r)
    \/ DatabaseError(r)

BatchSpec == Init /\ [][BatchNext]_vars

\* ------------------------------------------- deliveries of distinct messages
\* Deliveries of one text message each, every message with an id of its own.
DistinctIds == {101, 102, 103}

DistinctPayloads ==
  [pnid : PhoneNumberIds,
   messages : {<<m>> : m \in [id : DistinctIds, from : Phones, text : Texts]},
   statuses : {<<>>}]

HandleDistinctWebhook(r) == ReceiveWhatsapp(r, DistinctPayloads)

ConcurrentNext ==
  \E r \in Slots :
    \/ HandleDistinctWebhook(r)
    \/ WhatsappEvent(r, CreateEventKwargs)
    \/ Commit(r)
    \/ DatabaseError(r)

ConcurrentSpec == Init /\ [][ConcurrentNext]_vars

\* ------------------------------------------- WebhookEvent housekeeping
\* The methods of WebhookEvent that no route calls, each applied to the
\* committed table and committed by its caller.

\* the query of cleanup_old_events without its processed filter
old_events_Mutant(evs, now, days) ==
  {e \in DOMAIN evs : evs[e].created_at < now - days}

\* WebhookEvent.cleanup_old_events(days) at time now: the rows the query
\* selects, then the table that is left and the number returned.
old_events(evs, now, days) ==
  {e \in DOMAIN evs : evs[e].processed /\ evs[e].created_at < now - days}

cleanup_old_events(evs, now, days) ==
  [left |-> [e \in (DOMAIN evs) \ old_events(evs, now, days) |-> evs[e]],
   returned |-> Cardinality(old_events(evs, now, days))]

CleanupOldEvents ==
  /\ started < MaxRequests
  /\ \E days \in 0..MaxDays :
       LET result == cleanup_old_events(events, started + 1, days) IN
       /\ events' = result.left
       /\ probe' = [fn |-> "cleanup_old_events", days |-> days,
                    now |-> started + 1, returned |-> result.returned]
  /\ started' = started + 1
  /\ UNCHANGED <<convs, msgs, req, calls, resp>>

MarkProcessed ==
  /\ started < MaxRequests
  /\ \E e \in DOMAIN events :
       events' = [events EXCEPT ![e] = mark_processed(@, started + 1)]
  /\ started' = started + 1
  /\ UNCHANGED <<convs, msgs, req, calls, resp, probe>>

MarkFailed ==
  /\ started < MaxRequests
  /\ \E e \in DOMAIN events :
       events' = [events EXCEPT ![e] = mark_failed(@, "error")]
  /\ started' = started + 1
  /\ UNCHANGED <<convs, msgs, req, calls, resp, probe>>

HousekeepingNext ==
  \/ CleanupOldEvents
  \/ MarkProcessed
  \/ MarkFailed
  \/ \E r \in Slots :
    \/ HandleWhatsappWebhook(r)
    \/ WhatsappEvent(r, CreateEventKwargs)
    \/ HandleBotpressWebhook(r)
    \/ BotpressEvent(r, CreateEventKwargs)
    \/ Commit(r)
    \/ DatabaseError(r)

HousekeepingSpec == Init /\ [][HousekeepingNext]_vars

\* ------------------------------------------------------- retry selection
\* The program constant: the default of max_retries.
MaxRetries == 3

\* get_failed_events without its retry_count filter
get_failed_events_Mutant(evs, max_retries) ==
  {e \in DOMAIN evs : ~evs[e].processed /\ evs[e].error_message # Null}

\* WebhookEvent.get_failed_events(max_retries): the events a retry selects.
get_failed_events(evs, max_retries) ==
  {e \in DOMAIN evs :
      /\ ~evs[e].processed
      /\ evs[e].retry_count < max_retries
      /\ evs[e].error_message # Null}

\* The deliveries whose events the retry specification follows.
MaxRetryEvents == 2

\* The failures a processing attempt can end with.
Errors == {"timeout", "refused"}

\* An attempt on an event that can_retry admits fails: mark_failed.
AttemptFails ==
  /\ \E e \in DOMAIN events, error_message \in Errors :
       /\ can_retry(events[e], MaxRetries)
       /\ events' = [events EXCEPT ![e] = mark_failed(@, error_message)]
  /\ UNCHANGED <<convs, msgs, req, calls, started, resp, probe>>

\* The retry of an event get_failed_events returned succeeds: mark_processed.
RetrySucceeds ==
  /\ \E e \in get_failed_events(events, MaxRetries) :
       events' = [events EXCEPT ![e] = mark_processed(@, started)]
  /\ UNCHANGED <<convs, msgs, req, calls, started, resp, probe>>

RetryNext ==
  \/ AttemptFails
  \/ RetrySucceeds
  \/ CleanupOldEvents
  \/ started < MaxRetryEvents /\ HandleWhatsappWebhook(1)
  \/ WhatsappEvent(1, CreateEventKwargs)
  \/ Commit(1)
  \/ DatabaseError(1)

RetrySpec == Init /\ [][RetryNext]_vars

\* ------------------------------------------- GET /whatsapp (verification)
\* The query parameters of a verification request (Null: parameter absent)
\* and the WHATSAPP_VERIFY_TOKEN values of a deployment (Null: not set).
Modes == {Null, "subscribe", "unsubscribe", "SUBSCRIBE"}
Tokens == {Null, "", "vt1", "bad"}
Challenges == {Null, "", "0", "c1"}
VerifyTokens == {Null, "vt1"}

\* WhatsAppService.verify_webhook: the challenge, or None
verify_webhook(mode, token, challenge, verify_token) ==
  IF mode = "subscribe" /\ token = verify_token THEN challenge ELSE Null

\* The truth value Python gives a string or None
Truthy(x) == x # Null /\ x # ""

\* verify_whatsapp_webhook
verify_whatsapp_webhook(mode, token, challenge, verify_token) ==
  LET result == verify_webhook(mode, token, challenge, verify_token) IN
  IF Truthy(result) THEN Response(200, 0, result)
  ELSE Response(403, 0, "Verification failed")

VerifyWhatsappWebhook ==
  /\ \E mode \in Modes, token \in Tokens, challenge \in Challenges,
        verify_token \in VerifyTokens :
       /\ probe' = [fn |-> "verify_webhook", mode |-> mode, token |-> token,
                    challenge |-> challenge, verify_token |-> verify_token]
       /\ resp' = verify_whatsapp_webhook(mode, token, challenge, verify_token)
  /\ UNCHANGED <<events, convs, msgs, req, calls, started>>

VerifySpec == Init /\ [][VerifyWhatsappWebhook]_vars

\* ------------------------------------------------- format_phone_number
\* A string is a sequence of characters.
Digits == {"0", "1", "2", "3", "4", "5", "6", "7", "8", "9"}
IsDigit(ch) == ch \in Digits

\* format_phone_number with the country code added as 8 instead of 7
format_phone_number_Mutant(phone_number) ==
  LET cleaned == SelectSeq(phone_number, IsDigit) IN
  IF Len(cleaned) = 10 /\ cleaned[1] = "7" THEN cleaned
  ELSE IF Len(cleaned) = 10 THEN <<"8">> \o cleaned
  ELSE IF Len(cleaned) = 11 /\ cleaned[1] = "8" THEN <<"7">> \o Tail(cleaned)
  ELSE cleaned

\* WhatsAppService.format_phone_number
format_phone_number(phone_number) ==
  LET cleaned == SelectSeq(phone_number, IsDigit) IN
  IF Len(cleaned) = 10 /\ cleaned[1] = "7" THEN cleaned
  ELSE IF Len(cleaned) = 10 THEN <<"7">> \o cleaned
  ELSE IF Len(cleaned) = 11 /\ cleaned[1] = "8" THEN <<"7">> \o Tail(cleaned)
  ELSE cleaned

\* The numbers tried: up to MaxPrefixLen leading characters, digits or
\* punctuation, followed by up to MaxZeroRun zeros.
PhoneChars == {"7", "8", "5", "+", " "}
PhoneInputs ==
  {prefix \o [i \in 1..n |-> "0"] :
     prefix \in SeqsUpTo(PhoneChars, MaxPrefixLen), n \in 0..MaxZeroRun}

FormatPhoneNumber ==
  /\ \E phone_number \in PhoneInputs :
       probe' = [fn |-> "format_phone_number", phone_number |-> phone_number,
                 formatted |-> format_phone_number(phone_number),
                 again |-> format_phone_number(format_phone_number(phone_number))]
  /\ UNCHANGED <<events, convs, msgs, req, calls, started, resp>>

FormatSpec == Init /\ [][FormatPhoneNumber]_vars

\* ------------------------------------------------ payload normalisation
\* The entries a provider payload can hold in value.messages and
\* value.statuses: well-formed objects, an object without its id, and a value
\* that is not an object.
RawMessages ==
  [id : InboundIds, from : Phones, text : Texts]
  \cup [from : Phones, text : Texts]
  \cup {[scalar |-> "junk"]}

RawStatuses ==
  [id : InboundIds, status : {"delivered", "read"}] \cup {[scalar |-> "junk"]}

RawPayloads ==
  [pnid : PhoneNumberIds,
   messages : SeqsUpTo(RawMessages, MaxBatchEvents),
   statuses : SeqsUpTo(RawStatuses, MaxBatchEvents)]

\* whatsapp_service.process_webhook_event called twice with one payload.
ProcessWebhookEvent ==
  /\ \E webhook_data \in RawPayloads :
       probe' = [fn |-> "process_webhook_event", webhook_data |-> webhook_data,
                 result |-> process_webhook_event(webhook_data),
                 again |-> process_webhook_event(webhook_data)]
  /\ UNCHANGED <<events, convs, msgs, req, calls, started, resp>>

\* botpress_service.process_webhook_event called twice with one body; the
\* clock may have advanced between the two calls.
BotpressProcessWebhookEvent ==
  /\ \E event_data \in BotpressBodies, later \in {started, started + 1} :
       probe' = [fn |-> "botpress_process_webhook_event",
                 webhook_data |-> event_data,
                 result |-> botpress_process_webhook_event(event_data, started),
                 again |-> botpress_process_webhook_event(event_data, later)]
  /\ UNCHANGED <<events, convs, msgs, req, calls, started, resp>>

\* POST /whatsapp with a payload that holds an entry that is not an object.
MalformedPayloads == {p \in RawPayloads : process_webhook_event(p).raised}

HandleMalformedWebhook(r) == ReceiveWhatsapp(r, MalformedPayloads)

NormalizeNext ==
  \/ ProcessWebhookEvent
  \/ BotpressProcessWebhookEvent
  \/ \E r \in Slots : HandleMalformedWebhook(r)

NormalizeSpec == Init /\ [][NormalizeNext]_vars

\* The steps a started request takes on its own: a request that has been
\* received runs to its response.
RequestStep(r) ==
  \/ WhatsappEvent(r, CreateEventKwargs)
  \/ BotpressEvent(r, CreateEventKwargs)
  \/ Commit(r)

FairSpec == Spec /\ \A r \in Slots : WF_vars(RequestStep(r))

\* ------------------------------------------------------------------ claims
InboundMessages == {m \in DOMAIN msgs : msgs[m].direction = "inbound"}

MessagesOf(c) == {m \in DOMAIN msgs : msgs[m].conversation_id = c}

\* C1: at most one inbound Message exists per non-null whatsapp_message_id,
\* also after the redelivery of a payload with the same message id.
C1_OneInboundMessagePerWhatsappId ==
  \A m1, m2 \in InboundMessages :
    (/\ msgs[m1].whatsapp_message_id # None
     /\ msgs[m1].whatsapp_message_id = msgs[m2].whatsapp_message_id) => m1 = m2

\* C2: botpress_service.send_message is called at most once per WhatsApp
\* message id, whatever the number of deliveries of that message.
C2_ForwardedAtMostOncePerMessage ==
  \A mid \in InboundIds : Cardinality(BotpressSends(mid)) <= 1

\* C3: no call to the Botpress or WhatsApp API has been made for a webhook
\* event whose WebhookEvent row is not committed.
C3_EventCommittedBeforeSideEffect ==
  \A c \in calls : c.ev \in DOMAIN events

\* C4: the message_count of every committed Conversation equals the number of
\* committed Message rows of that conversation.
C4_MessageCountEqualsRows ==
  \A c \in DOMAIN convs : convs[c].message_count = Cardinality(MessagesOf(c))

\* C5: at most one Conversation with status open exists per
\* (chatbot_id, customer_phone).
C5_AtMostOneOpenConversation ==
  \A c1, c2 \in DOMAIN convs :
    (/\ convs[c1].status = "open" /\ convs[c2].status = "open"
     /\ convs[c1].chatbot_id = convs[c2].chatbot_id
     /\ convs[c1].customer_phone = convs[c2].customer_phone) => c1 = c2

\* The rows request r created and the step from the current state commits.
CommitsMessage(r, m) ==
  /\ m \in DOMAIN req[r].txMsgs
  /\ m \notin DOMAIN msgs
  /\ m \in DOMAIN msgs'

\* C6: when a handler commits an inbound Message while an open Conversation
\* of the same chatbot and customer is already committed (the winner of a
\* concurrent resolve), the Message is attached to that conversation: the
\* loser creates no second Conversation.
C6_LoserAttachesToWinner ==
  [][\A r \in Slots : \A m \in DOMAIN req[r].txMsgs :
       (CommitsMessage(r, m) /\ msgs'[m].direction = "inbound") =>
          \A c \in DOMAIN convs :
             (/\ convs[c].status = "open"
              /\ convs[c].chatbot_id = convs'[msgs'[m].conversation_id].chatbot_id
              /\ convs[c].customer_phone =
                   convs'[msgs'[m].conversation_id].customer_phone)
             => msgs'[m].conversation_id = c]_vars

\* Request r is about to apply a status callback whose status is in names.
AppliesStatus(r, names) ==
  /\ req[r].pc = "event"
  /\ req[r].kind = "whatsapp"
  /\ Head(req[r].queue).type = "message_status"
  /\ Head(req[r].queue).status \in names

AllMessages(r) == (DOMAIN msgs) \cup (DOMAIN req[r].txMsgs)

\* C7: a 'delivered' callback applied to a Message that a 'read' callback
\* has already marked read is dropped: it changes no field of the Message.
C7_DeliveredAfterReadIsDropped ==
  [][\A r \in Slots : \A m \in AllMessages(r) :
       (/\ AppliesStatus(r, {"delivered"})
        /\ MsgObject(req[r], m).read_at # None
        /\ m \in DOMAIN req'[r].txMsgs)
       => req'[r].txMsgs[m] = MsgObject(req[r], m)]_vars

\* C8: once failed_at is set on a Message, a later 'sent', 'delivered' or
\* 'read' callback neither sets nor changes its delivered_at or read_at.
C8_FailedIsTerminal ==
  [][\A r \in Slots : \A m \in AllMessages(r) :
       (/\ AppliesStatus(r, {"sent", "delivered", "read"})
        /\ MsgObject(req[r], m).failed_at # None
        /\ m \in DOMAIN req'[r].txMsgs)
       => /\ req'[r].txMsgs[m].delivered_at = MsgObject(req[r], m).delivered_at
          /\ req'[r].txMsgs[m].read_at = MsgObject(req[r], m).read_at]_vars

\* The forwards to the bot backend that failed (create_conversation or
\* send_message raised).
FailedForwards ==
  {c \in calls : c.api \in {"create_conversation", "send_message"} /\ ~c.ok}

AcceptedForwards(mid) == {c \in BotpressSends(mid) : c.ok}

\* C9: when the forward of an inbound message failed, the committed state
\* holds the inbound Message and the WebhookEvent with processed = FALSE and
\* retry_count = 1.
C9_FailedForwardCountsRetry ==
  \A c \in FailedForwards :
    c.ev \in DOMAIN events =>
      /\ \E m \in InboundMessages : msgs[m].whatsapp_message_id = c.mid
      /\ ~events[c.ev].processed
      /\ events[c.ev].retry_count = 1

\* An inbound message whose forward failed and whose WebhookEvent waits for
\* a retry.
AwaitsRetry(mid) ==
  \E c \in FailedForwards :
    /\ c.mid = mid
    /\ c.ev \in DOMAIN events
    /\ can_retry(events[c.ev], MaxRetries)

\* C10: an inbound message whose forward failed is eventually re-attempted
\* until the bot backend has accepted it.
C10_FailedForwardIsRetried ==
  \A mid \in InboundIds : AwaitsRetry(mid) ~> (AcceptedForwards(mid) # {})

\* A webhook request that has entered its handler ends with this step.
WebhookRequestEnds(r) ==
  /\ req[r].kind \in {"whatsapp", "botpress"}
  /\ req[r].pc # "idle"
  /\ req'[r].pc = "idle"

\* C11: a webhook delivery that entered handle_whatsapp_webhook or
\* handle_botpress_webhook is answered with HTTP 200 whatever happens while
\* its events are processed: no failure of the processing surfaces as an
\* error response.
C11_WebhookAlwaysAnswers200 ==
  [][\A r \in Slots : WebhookRequestEnds(r) => resp'.status = 200]_vars

\* C14: when the WhatsApp handler answers 200 for a message_status callback
\* that matched no stored Message, the callback's WebhookEvent is committed
\* with processed = TRUE and no Message has changed.
C14_UnknownStatusIsProcessed ==
  [][\A r \in Slots :
       (/\ WebhookRequestEnds(r)
        /\ req[r].kind = "whatsapp"
        /\ req[r].ev # None
        /\ req[r].txEvents[req[r].ev].event_type = "message_status"
        /\ DOMAIN req[r].txMsgs = {}
        /\ resp'.status = 200)
       => /\ req[r].ev \in DOMAIN events'
          /\ events'[req[r].ev].processed
          /\ msgs' = msgs]_vars

\* C17: with BOTPRESS_WEBHOOK_SECRET configured, a Botpress delivery is
\* processed only when its signature header is 'sha256=' plus the HMAC of the
\* body under the secret: a request with a missing or wrong signature never
\* reaches the event processing.
C17_OnlySignedBotpressProcessed ==
  \A r \in Slots :
    (req[r].kind = "botpress" /\ req[r].pc = "event") =>
       validate_webhook_signature(Head(req[r].queue).data, req[r].signature,
                                  BOTPRESS_WEBHOOK_SECRET)

\* C19: a reopen is rejected for an archived conversation: no step turns an
\* archived conversation into an open one.
C19_ArchivedIsNotReopened ==
  [][\A c \in (DOMAIN convs) \cap (DOMAIN convs') :
       convs[c].status = "archived" => convs'[c].status # "open"]_vars

\* No active chatbot with auto-response enabled is bound to the number.
NoForwardingChatbot(pnid) ==
  ~\E cb \in Chatbots :
      /\ cb.whatsapp_phone_number_id = pnid
      /\ cb.status = "active"
      /\ cb.auto_response_enabled

ChatbotsOf(pnid) == {cb.id : cb \in {b \in Chatbots : b.whatsapp_phone_number_id = pnid}}

\* C15: a committed message_received event for a number without an active,
\* auto-forwarding chatbot is marked processed, no Conversation or Message
\* exists for a chatbot of that number, and no call to the bot backend was
\* made for the event.
C15_UnservedNumberStopsProcessed ==
  \A e \in DOMAIN events :
    (/\ events[e].source = "whatsapp"
     /\ events[e].event_type = "message_received"
     /\ NoForwardingChatbot(events[e].payload.phone_number_id))
    => /\ events[e].processed
       /\ \A c \in DOMAIN convs :
            convs[c].chatbot_id \notin ChatbotsOf(events[e].payload.phone_number_id)
       /\ \A m \in DOMAIN msgs :
            convs[msgs[m].conversation_id].chatbot_id
               \notin ChatbotsOf(events[e].payload.phone_number_id)
       /\ \A k \in calls :
            k.ev = e => k.api \notin {"create_conversation", "send_message"}

\* C12: when the processing of a later sub-event of a WhatsApp batch fails,
\* the sub-events processed before it are committed and the response is 200
\* with processed_events equal to the number of sub-events of the batch.
C12_BatchSurvivesSubEventFailure ==
  [][\A r \in Slots :
       (/\ req[r].kind = "whatsapp"
        /\ req[r].pc = "event"
        /\ DOMAIN req[r].txEvents # {}
        /\ req'[r].pc = "idle")
       => /\ DOMAIN req[r].txEvents \subseteq DOMAIN events'
          /\ resp' = Response(200, req[r].batch, "")]_vars

\* C13: processed never goes from TRUE back to FALSE for a stored
\* WebhookEvent (so it goes from FALSE to TRUE at most once), whatever the
\* handlers, mark_processed, mark_failed and cleanup_old_events do.
C13_ProcessedNeverReverts ==
  [][\A e \in (DOMAIN events) \cap (DOMAIN events') :
       events[e].processed => events'[e].processed]_vars

\* A processed event that mark_failed and mark_processed were applied to.
C13_Witness ==
  \E e \in DOMAIN events :
    /\ events[e].processed
    /\ events[e].retry_count > 0
    /\ events[e].processed_at > events[e].created_at

\* The step is a call of cleanup_old_events.
CleanupStep == probe' # probe /\ probe'.fn = "cleanup_old_events"

\* C18: cleanup_old_events deletes exactly the events with processed = TRUE
\* and created_at before the cutoff, returns their number, deletes no
\* unprocessed event and leaves every remaining event unchanged.
C18_CleanupDeletesOnlyProcessedOld ==
  [][CleanupStep =>
       /\ (DOMAIN events) \ (DOMAIN events') =
            {e \in DOMAIN events :
               /\ events[e].processed
               /\ events[e].created_at < probe'.now - probe'.days}
       /\ probe'.returned = Cardinality((DOMAIN events) \ (DOMAIN events'))
       /\ \A e \in DOMAIN events' : e \in DOMAIN events /\ events'[e] = events[e]
       /\ \A e \in DOMAIN events : ~events[e].processed => e \in DOMAIN events']_vars

\* A cleanup has deleted an event and an unprocessed event older than the
\* cutoff is still stored.
C18_Witness ==
  /\ probe.fn = "cleanup_old_events"
  /\ probe.returned > 0
  /\ started = probe.now
  /\ \E e \in DOMAIN events :
       ~events[e].processed /\ events[e].created_at < probe.now - probe.days

\* C16: with a verify token configured and a hub.challenge sent, the GET
\* verification endpoint answers 200 with the challenge as its body if
\* hub.mode is 'subscribe' and hub.verify_token equals the configured
\* token, and answers 403 in every other case.
C16_VerificationIffModeAndToken ==
  (/\ probe.fn = "verify_webhook"
   /\ probe.verify_token # Null
   /\ probe.challenge # Null)
  => IF probe.mode = "subscribe" /\ probe.token = probe.verify_token
     THEN resp.status = 200 /\ resp.body = probe.challenge
     ELSE resp.status = 403

\* C20: format_phone_number applied to its own result returns that result,
\* and the result holds digit characters only.
C20_FormatPhoneNumberIdempotent ==
  probe.fn = "format_phone_number" =>
    /\ probe.again = probe.formatted
    /\ \A i \in 1..Len(probe.formatted) : IsDigit(probe.formatted[i])

\* A number with punctuation and ten digits not starting with 7: the country
\* code was added, and a second application changes nothing.
C20_Witness ==
  /\ probe.fn = "format_phone_number"
  /\ \E i \in 1..Len(probe.phone_number) : ~IsDigit(probe.phone_number[i])
  /\ Len(SelectSeq(probe.phone_number, IsDigit)) = 10
  /\ Len(probe.formatted) = 11
  /\ probe.again = probe.formatted

\* The active chatbots bound to a WhatsApp phone number id.
ActiveChatbots(pnid) ==
  {cb \in Chatbots : cb.whatsapp_phone_number_id = pnid /\ cb.status = "active"}

\* Request r is about to process a message_received event for the number of
\* an active chatbot, at most one open conversation exists for the customer
\* and no other request is running.
ProcessesInbound(r) ==
  /\ req[r].kind = "whatsapp"
  /\ req[r].pc = "event"
  /\ Head(req[r].queue).type = "message_received"
  /\ ActiveChatbots(Head(req[r].queue).phone_number_id) # {}
  /\ \A q \in Slots \ {r} : req[q].pc = "idle"
  /\ \A cb \in ActiveChatbots(Head(req[r].queue).phone_number_id) :
       Cardinality(OpenConversations(req[r], cb.id, Head(req[r].queue).from)) <= 1

\* C21: processing an inbound text message leaves exactly one open
\* Conversation for the chatbot and customer and adds exactly one Message
\* (inbound, text, the message text as content) to it: a new conversation
\* with message_count 1 when none was open, else the open one with its
\* message_count incremented.
C21_FirstInboundCreatesConversation ==
  [][\A r \in Slots : (ProcessesInbound(r) /\ req'[r] # req[r]) =>
       \A cb \in ActiveChatbots(Head(req[r].queue).phone_number_id) :
         LET event == Head(req[r].queue)
             before == OpenConversations(req[r], cb.id, event.from)
             after == OpenConversations(req'[r], cb.id, event.from)
             new == (DOMAIN req'[r].txMsgs) \ (DOMAIN req[r].txMsgs)
         IN /\ Cardinality(new) = 1
            /\ Cardinality(after) = 1
            /\ before # {} => after = before
            /\ \A m \in new :
                 /\ req'[r].txMsgs[m].direction = "inbound"
                 /\ req'[r].txMsgs[m].type = "text"
                 /\ req'[r].txMsgs[m].content = event.content.text
                 /\ req'[r].txMsgs[m].conversation_id \in after
            /\ \A c \in after :
                 /\ c \in DOMAIN req'[r].txConvs
                 /\ req'[r].txConvs[c].status = "open"
                 /\ req'[r].txConvs[c].message_count =
                      IF before = {} THEN 1
                      ELSE ConvObject(req[r], c).message_count + 1]_vars

\* An entry process_webhook_event can turn into an event: an object that
\* carries its id.
WellFormed(x) == IsObject(x) /\ "id" \in DOMAIN x

\* C22: process_webhook_event never raises on a payload that holds malformed
\* entries; it returns the events of the well-formed message and status
\* entries, in order, and the empty list for a payload without entries.
C22_UnparsableSubEventSkipped ==
  probe.fn = "process_webhook_event" =>
    /\ ~probe.result.raised
    /\ probe.result.events =
         [i \in 1..Len(SelectSeq(probe.webhook_data.messages, WellFormed)) |->
            MessageEvent(probe.webhook_data.pnid,
                         SelectSeq(probe.webhook_data.messages, WellFormed)[i])]
         \o
         [i \in 1..Len(SelectSeq(probe.webhook_data.statuses, WellFormed)) |->
            StatusEvent(probe.webhook_data.pnid,
                        SelectSeq(probe.webhook_data.statuses, WellFormed)[i])]

\* The step is a pair of calls of one adapter's process_webhook_event.
NormalizeStep ==
  /\ probe' # probe
  /\ probe'.fn \in {"process_webhook_event", "botpress_process_webhook_event"}

\* C23: two calls of process_webhook_event with the same raw payload return
\* equal results and change no stored or session state, for the WhatsApp and
\* for the Botpress adapter.
C23_NormalizationDeterministic ==
  [][NormalizeStep =>
       /\ probe'.again = probe'.result
       /\ UNCHANGED <<events, convs, msgs, req, calls>>]_vars

\* C24: every pass of a webhook handler over an event (a sub-event of a
\* WhatsApp payload, an accepted Botpress body) stores exactly one new
\* WebhookEvent that holds the event as payload, with retry_count 0 and
\* processed FALSE until the processing of that event marks it.
C24_WebhookEventCreated ==
  [][\A r \in Slots :
       (req[r].pc = "event" /\ req'[r] # req[r]) =>
         LET new == (DOMAIN req'[r].txEvents) \ (DOMAIN req[r].txEvents) IN
         /\ Cardinality(new) = 1
         /\ \A e \in new :
              /\ req'[r].txEvents[e].payload = Head(req[r].queue)
              /\ req'[r].txEvents[e].retry_count = 0
              /\ \/ ~req'[r].txEvents[e].processed
                 \/ req'[r].txEvents[e].processed_at = started]_vars

\* The forward of the event stored under e reached the bot backend.
ForwardSucceeded(e) ==
  \E c \in calls : c.ev = e /\ c.api = "send_message" /\ c.ok

\* C25: when handle_whatsapp_webhook commits after a message_received
\* sub-event whose forward to the bot backend succeeded, the WebhookEvent of
\* that sub-event is committed with processed = TRUE and processed_at set.
C25_ForwardedEventCommittedProcessed ==
  [][\A r \in Slots : \A e \in DOMAIN req[r].txEvents :
       (/\ req[r].kind = "whatsapp"
        /\ req[r].pc = "commit"
        /\ req'[r].pc = "idle"
        /\ e \in DOMAIN events'
        /\ req[r].txEvents[e].event_type = "message_received"
        /\ ForwardSucceeded(e))
       => /\ events'[e].processed
          /\ events'[e].processed_at # None]_vars

\* The Messages request r adds to conversation c with its commit.
AddedMessages(r, c) ==
  {m \in (DOMAIN req[r].txMsgs) \ (DOMAIN msgs) :
      req[r].txMsgs[m].conversation_id = c}

\* No message id was delivered twice: the stored Messages have pairwise
\* different whatsapp_message_ids.
DistinctDeliveries(stored) ==
  \A m1, m2 \in DOMAIN stored :
     stored[m1].whatsapp_message_id = stored[m2].whatsapp_message_id => m1 = m2

\* C26: the commit of a WhatsApp handler that added inbound Messages (no
\* message id delivered twice) to an existing conversation raises the
\* committed message_count by the number of Messages it added, also when
\* another handler has committed a Message of the same conversation in the
\* meantime: after two concurrent handlers the count has grown by two.
C26_CountUpdatesDoNotInterleave ==
  [][\A r \in Slots : \A c \in (DOMAIN convs) \cap (DOMAIN req[r].txConvs) :
       (/\ req[r].kind = "whatsapp"
        /\ req[r].pc = "commit"
        /\ req'[r].pc = "idle"
        /\ AddedMessages(r, c) # {}
        /\ DistinctDeliveries(msgs')
        /\ AddedMessages(r, c) \subseteq DOMAIN msgs')
       => convs'[c].message_count =
            convs[c].message_count + Cardinality(AddedMessages(r, c))]_vars

\* C27: in every reachable state a stored Message that status callbacks
\* refer to (an outbound Message sent through the WhatsApp API) and that has
\* read_at set also has delivered_at set.
C27_ReadImpliesDelivered ==
  \A m \in DOMAIN msgs :
    (msgs[m].direction = "outbound" /\ msgs[m].read_at # None)
      => msgs[m].delivered_at # None

\* A WebhookEvent in one of the two final states: processed, or failed with
\* the failure recorded and the retry counted.
WellDefined(ev) ==
  \/ ev.processed
  \/ ev.retry_count > 0 /\ ev.error_message # Null

\* C28: a webhook handler invocation that had an event to handle ends, on
\* every path, with the WebhookEvent of that event stored and either
\* processed or failed with retry_count incremented.
C28_EventLeftWellDefined ==
  [][\A r \in Slots :
       (/\ WebhookRequestEnds(r)
        /\ (req[r].pc = "event" \/ DOMAIN req[r].txEvents # {}))
       => /\ (DOMAIN events') \ (DOMAIN events) # {}
          /\ \A e \in (DOMAIN events') \ (DOMAIN events) :
               WellDefined(events'[e])]_vars

\* The stored outbound Messages of the customer's conversations that carry
\* the message id the WhatsApp API returned for the send c.
RepliesStoredFor(c) ==
  {m \in DOMAIN msgs :
      /\ msgs[m].direction = "outbound"
      /\ msgs[m].whatsapp_message_id = c.mid
      /\ convs[msgs[m].conversation_id].customer_phone = c.to}

\* C29: once the Botpress handler that sent a reply through the WhatsApp API
\* has ended, exactly one outbound Message with the message id the API
\* returned is stored in the customer's conversation, for a later status
\* callback with that id to update.
C29_SentReplyStoredWithProviderId ==
  \A c \in WaSent :
    (\A r \in Slots : req[r].ev # c.ev) => Cardinality(RepliesStoredFor(c)) = 1

\* The forwarding calls (to the bot backend, to the WhatsApp API) that were
\* answered with a 4xx status other than 429 Too Many Requests.
NonRetryableFailures ==
  {c \in calls :
      /\ c.api \in {"create_conversation", "send_message", "send_text_message"}
      /\ c.status_code >= 400 /\ c.status_code < 500 /\ c.status_code # 429}

\* C30: the committed WebhookEvent of an event whose forwarding failed with
\* a non-retryable error is marked processed, carries the failure in its
\* error_message, and the call is not made a second time for it.
C30_NonRetryableFailureRecorded ==
  \A c \in NonRetryableFailures :
    c.ev \in DOMAIN events =>
      /\ events[c.ev].processed
      /\ events[c.ev].error_message # Null
      /\ Cardinality({k \in calls : k.ev = c.ev /\ k.api = c.api}) = 1

\* An unprocessed event whose retry_count has reached max_retries.
Exhausted(ev) == ~ev.processed /\ ev.retry_count >= MaxRetries

MarkProcessedStep(e) ==
  /\ events' = [events EXCEPT ![e] = mark_processed(events[e], started')]
  /\ started' = started + 1
  /\ req' = req
  /\ probe' = probe

\* C32: mark_processed on a WebhookEvent that is already processed is a
\* no-op: every field, processed_at included, stays as the first call left
\* it.
C32_MarkProcessedIdempotent ==
  [][\A e \in DOMAIN events :
       (events[e].processed /\ MarkProcessedStep(e))
         => events'[e] = events[e]]_vars

\* C33: the retry_count of a stored WebhookEvent never decreases and
\* increases only while the event is unprocessed (mark_failed on a processed
\* event leaves it alone), and no step changes the event's payload.
C33_RetryCountOnlyWhileUnprocessed ==
  [][\A e \in (DOMAIN events) \cap (DOMAIN events') :
       /\ events'[e].retry_count >= events[e].retry_count
       /\ events'[e].retry_count > events[e].retry_count
            => ~events[e].processed
       /\ events'[e].payload = events[e].payload]_vars

\* ------------------------------------------------------ downstream calls
\* _make_request runs requests.get/post without a timeout argument: the
\* handler is inside the call until the downstream service answers.
\* The next event of r reaches mark_message_as_read (and send_message).
WhatsappCallsDownstream(r) ==
  /\ req[r].pc = "event"
  /\ req[r].kind = "whatsapp"
  /\ Head(req[r].queue).type = "message_received"
  /\ \E cb \in Chatbots :
       /\ cb.whatsapp_phone_number_id = Head(req[r].queue).phone_number_id
       /\ cb.status = "active"

\* The next event of r reaches send_text_message.
BotpressCallsDownstream(r) ==
  /\ req[r].pc = "event"
  /\ req[r].kind = "botpress"
  /\ LET event == Head(req[r].queue) IN
     /\ event.event_type = "message_received"
     /\ event.data.text # ""
     /\ event.data.userId # ""
     /\ \E cb \in Chatbots :
          /\ cb.botpress_bot_id = event.bot_id
          /\ cb.status = "active"
          /\ cb.whatsapp_phone_number_id # Null
          /\ OpenConversations(req[r], cb.id, event.data.userId) # {}

CallsDownstream(r) == WhatsappCallsDownstream(r) \/ BotpressCallsDownstream(r)

\* The downstream service answers and the handler goes on with the answer.
DownstreamAnswers(r) ==
  /\ CallsDownstream(r)
  /\ \/ WhatsappEvent(r, CreateEventKwargs)
     \/ BotpressEvent(r, CreateEventKwargs)

\* The steps the handler takes without an answer of a downstream service.
HandlerStep(r) ==
  /\ ~CallsDownstream(r)
  /\ \/ WhatsappEvent(r, CreateEventKwargs)
     \/ BotpressEvent(r, CreateEventKwargs)
     \/ Commit(r)

DeadlineNext ==
  \E r \in Slots :
    \/ HandleWhatsappWebhook(r)
    \/ HandleBotpressWebhook(r)
    \/ DownstreamAnswers(r)
    \/ HandlerStep(r)

\* The handler's own steps are taken; the downstream service owes no answer.
DeadlineSpec ==
  Init /\ [][DeadlineNext]_vars /\ \A r \in Slots : WF_vars(HandlerStep(r))

\* C34: every webhook handler invocation ends with its HTTP response, also
\* when the downstream Botpress or WhatsApp call never answers.
C34_HandlerTerminates ==
  \A r \in Slots : (req[r].pc # "idle") ~> (req[r].pc = "idle")

\* The stored or pending WebhookEvents of evs that recorded the inbound
\* message with the WhatsApp id wamid.
EventsOfMessage(evs, wamid) ==
  {e \in DOMAIN evs :
      /\ evs[e].event_type = "message_received"
      /\ evs[e].payload.message_id = wamid}

\* C35: the events of one conversation are processed in the order their
\* WebhookEvents were recorded: when a handler inserts the Message of its
\* event into a conversation (no message id delivered twice), every Message
\* already inserted there belongs to an event recorded earlier, also when
\* the handlers run concurrently.
C35_FifoPerConversation ==
  [][\A r \in Slots : \A c \in DOMAIN convs :
       (/\ req[r].kind = "whatsapp"
        /\ req[r].pc = "commit"
        /\ req'[r].pc = "idle"
        /\ DistinctDeliveries(msgs')
        /\ AddedMessages(r, c) \subseteq DOMAIN msgs')
       => \A m2 \in AddedMessages(r, c) : \A m1 \in MessagesOf(c) :
            \A e2 \in EventsOfMessage(req[r].txEvents,
                                      req[r].txMsgs[m2].whatsapp_message_id) :
            \A e1 \in EventsOfMessage(events, msgs[m1].whatsapp_message_id) :
              e1 < e2]_vars

\* The fields of a Message a status callback may set.
StatusFields == {"delivered_at", "read_at", "failed_at", "error_message"}

\* Request r processes the message_status event at the head of its queue.
ProcessesStatus(r) ==
  /\ AppliesStatus(r, StatusNames)
  /\ req'[r] # req[r]
  /\ req'[r].pc \in {"event", "commit"}

\* Request r, all of whose events were message_status events, commits.
CommitsStatuses(r) ==
  /\ req[r].kind = "whatsapp"
  /\ req[r].pc = "commit"
  /\ req'[r].pc = "idle"
  /\ DOMAIN req[r].txEvents # {}
  /\ \A e \in DOMAIN req[r].txEvents :
       req[r].txEvents[e].event_type = "message_status"

\* C36: processing a message_status event changes only delivered_at,
\* read_at, failed_at and error_message of a single Message whose
\* whatsapp_message_id matches, and only its own WebhookEvent; it creates no
\* Message, leaves every other field of every Message as it was, changes no
\* Conversation and calls no API, in the session and in what the commit
\* writes.
C36_StatusChangesOnlyStatusFields ==
  [][\A r \in Slots :
       /\ ProcessesStatus(r) =>
            /\ DOMAIN req'[r].txMsgs \subseteq AllMessages(r)
            /\ \A m \in DOMAIN req'[r].txMsgs :
                 /\ req'[r].txMsgs[m] # MsgObject(req[r], m)
                      => MsgObject(req[r], m).whatsapp_message_id
                           = Head(req[r].queue).message_id
                 /\ \A f \in (DOMAIN req'[r].txMsgs[m]) \ StatusFields :
                      req'[r].txMsgs[m][f] = MsgObject(req[r], m)[f]
            /\ Cardinality({m \in DOMAIN req'[r].txMsgs :
                  req'[r].txMsgs[m] # MsgObject(req[r], m)}) <= 1
            /\ req'[r].txConvs = req[r].txConvs
            /\ \A e \in DOMAIN req[r].txEvents :
                 req'[r].txEvents[e] = req[r].txEvents[e]
            /\ calls' = calls
            /\ <<events, convs, msgs>>' = <<events, convs, msgs>>
       /\ CommitsStatuses(r) =>
            /\ DOMAIN msgs' = DOMAIN msgs
            /\ convs' = convs
            /\ \A e \in DOMAIN events : events'[e] = events[e]
            /\ \A m \in DOMAIN msgs :
                 /\ msgs'[m] # msgs[m] => m \in DOMAIN req[r].txMsgs
                 /\ \A f \in (DOMAIN msgs[m]) \ StatusFields :
                      msgs'[m][f] = msgs[m][f]]_vars

\* A 'read' callback for a stored Message has been processed and committed:
\* the Message is marked read and the callback's WebhookEvent is stored.
C36_Witness ==
  \E m \in DOMAIN msgs : \E e \in DOMAIN events :
    /\ msgs[m].read_at # None
    /\ events[e].event_type = "message_status"
    /\ events[e].payload.status = "read"
    /\ events[e].payload.message_id = msgs[m].whatsapp_message_id

\* C37: when an invocation of handle_whatsapp_webhook ends, every inbound
\* message it forwarded to the bot backend has a committed Message row: no
\* message is forwarded and then lost by a rollback.
C37_ForwardedMessageIsCommitted ==
  [][\A r \in Slots :
       (WebhookRequestEnds(r) /\ req[r].kind = "whatsapp")
       => \A c \in calls :
            (/\ c.api = "send_message"
             /\ c.ok
             /\ c.ev \in DOMAIN req[r].txEvents)
            => \E m \in DOMAIN msgs' :
                 /\ msgs'[m].direction = "inbound"
                 /\ msgs'[m].whatsapp_message_id = c.mid]_vars

\* ------------------------------------------------- bot responses rejected
\* Bot responses of a deployed, an inactive and an unknown bot, with and
\* without text and userId.
GuardedBotIds == {"bp1", "bp2", "bp0"}

GuardedBodies ==
  [type : {"message_received"}, botId : GuardedBotIds,
   userId : Phones \cup {""}, text : {"hi", ""}]

HandleGuardedWebhook(r) == ReceiveBotpress(r, GuardedBodies)

GuardNext ==
  \/ CloseConversation
  \/ HandleWhatsappWebhook(1)
  \/ WhatsappEvent(1, CreateEventKwargs)
  \/ HandleGuardedWebhook(1)
  \/ BotpressEvent(1, BotpressHandlerKwargs)
  \/ BotpressEvent(1, CreateEventKwargs)
  \/ Commit(1)
  \/ DatabaseError(1)

GuardSpec == Init /\ [][GuardNext]_vars

\* Request r processes the Botpress event at the head of its queue.
ProcessesBotResponse(r) ==
  /\ req[r].pc = "event"
  /\ req[r].kind = "botpress"
  /\ req'[r] # req[r]
  /\ req'[r].pc \in {"event", "commit"}

\* The event is a bot message an active chatbot, its text, its userId and an
\* open conversation of that user admit.
Admitted(event) ==
  /\ event.event_type = "message_received"
  /\ event.data.text # ""
  /\ event.data.userId # ""
  /\ \E cb \in Chatbots : \E c \in DOMAIN convs :
       /\ cb.botpress_bot_id = event.bot_id
       /\ cb.status = "active"
       /\ convs[c].chatbot_id = cb.id
       /\ convs[c].customer_phone = event.data.userId
       /\ convs[c].status = "open"

\* C38: a Botpress message event leads to a call of send_text_message only
\* if an active chatbot has its bot id, text and userId are non-empty and an
\* open conversation exists for (chatbot, userId); in every other case no
\* call is made, no Message is created and no Conversation is changed.
C38_BotResponseSentOnlyWhenAdmitted ==
  [][\A r \in Slots :
       (ProcessesBotResponse(r) /\ ~Admitted(Head(req[r].queue)))
       => /\ calls' = calls
          /\ req'[r].txMsgs = req[r].txMsgs
          /\ req'[r].txConvs = req[r].txConvs
          /\ <<convs, msgs>>' = <<convs, msgs>>]_vars

\* A bot response with text for the user of a closed conversation has been
\* handled and committed, and no call was made for it.
C38_Witness ==
  \E c \in DOMAIN convs : \E e \in DOMAIN events :
    /\ convs[c].status = "closed"
    /\ events[e].source = "botpress"
    /\ events[e].payload.bot_id = "bp1"
    /\ events[e].payload.data.text # ""
    /\ events[e].payload.data.userId = convs[c].customer_phone
    /\ \A call \in calls : call.ev # e

\* The calls of send_text_message the WhatsApp API answered with an error
\* status, on which send_text_message raises.
RaisedSends(cs) ==
  {c \in cs : c.api = "send_text_message" /\ c.status_code >= 400}

\* C39: when send_text_message raises while a bot response is relayed, the
\* handler creates no outbound Message, leaves the conversation's
\* message_count and last_message_at as they were and marks the WebhookEvent
\* processed; its commit stores the event as processed and nothing else, and
\* the response is not sent a second time.
C39_FailedSendIsDroppedAsProcessed ==
  [][\A r \in Slots :
       /\ (ProcessesBotResponse(r) /\ RaisedSends(calls' \ calls) # {})
          => /\ req'[r].txMsgs = req[r].txMsgs
             /\ req'[r].txConvs = req[r].txConvs
             /\ req'[r].txEvents[req'[r].ev].processed
       /\ (/\ req[r].kind = "botpress"
           /\ req[r].pc = "commit"
           /\ req'[r].pc = "idle"
           /\ resp'.status = 200
           /\ \E c \in RaisedSends(calls) : c.ev = req[r].ev)
          => /\ events'[req[r].ev].processed
             /\ convs' = convs
             /\ msgs' = msgs
             /\ \A c \in calls' :
                  (c.ev = req[r].ev /\ c.api = "send_text_message")
                    => c \in RaisedSends(calls)]_vars

\* A bot response whose send failed is committed as processed and no
\* outbound Message exists.
C39_Witness ==
  /\ \E c \in RaisedSends(calls) :
       c.ev \in DOMAIN events /\ events[c.ev].processed
  /\ \A m \in DOMAIN msgs : msgs[m].direction = "inbound"

\* C40: with no WhatsApp verify token configured every GET verification is
\* answered with 403, also one with hub.mode 'subscribe' that omits
\* hub.verify_token.
C40_NoTokenConfiguredNeverVerifies ==
  (probe.fn = "verify_webhook" /\ probe.verify_token = Null)
    => resp.status = 403

====
